---- MODULE Spec2Model ----
(***************************************************************************)
(* Model of app.py, the publication-analysis dashboard: the author-field   *)
(* normalizer split_authors, the memoized loader load_data, and the two    *)
(* collaboration-network views ("By SDG", "By Researcher").  A script run  *)
(* is one atomic step: the hosting shell executes the script top to bottom *)
(* on every interaction.                                                   *)
(*                                                                         *)
(* Text is modelled as a sequence of one-character strings, so an author   *)
(* name such as "A" is <<"A">>.  A CSV cell is a tagged record: kind "str" *)
(* carries its characters, kind "nan" is the missing value the tabular      *)
(* engine produces for an empty cell, kind "float" a numeric cell.          *)
(***************************************************************************)
EXTENDS Integers, Sequences, FiniteSets, TLC

(* ---------------------------- bounds ----------------------------------- *)
MaxLen == 4           \* longest raw author string enumerated for split_authors
MaxRows == 2          \* most rows of the source CSV (fixed-source runs)
MaxReloadRows == 1    \* most rows of the source CSV when the source may change

(* ---------------------------- cells ------------------------------------ *)
Delims == {",", ";"}                 \* the character class [,;]
Whitespace == {" ", "\t"}            \* characters removed by str.strip()
Letters == {"A", "B"}
Alphabet == Letters \cup Whitespace \cup Delims

Str(s) == [kind |-> "str", chars |-> s]
NaN == [kind |-> "nan", chars |-> <<>>]
Float == [kind |-> "float", chars |-> <<>>]

RECURSIVE SeqsUpTo(_, _)
SeqsUpTo(S, n) ==
  IF n = 0 THEN {<<>>}
  ELSE LET shorter == SeqsUpTo(S, n - 1)
       IN  shorter \cup {Append(s, c) : s \in {t \in shorter : Len(t) = n - 1}, c \in S}

ExampleString == <<"A", ",", " ", "B", " ", ";", " ", "C">>    \* "A, B ; C"

SplitInputs == {Str(s) : s \in SeqsUpTo(Alphabet, MaxLen) \cup {ExampleString}}
                 \cup {NaN, Float}

(* ------------------------- split_authors ------------------------------- *)
\* index of the first delimiter of s, 0 when there is none
RECURSIVE FirstDelim(_, _)
FirstDelim(s, i) ==
  IF i > Len(s) THEN 0
  ELSE IF s[i] \in Delims THEN i
  ELSE FirstDelim(s, i + 1)

\* re.split(r'[,;]', s): the pieces between delimiters, empty ones included
RECURSIVE re_split(_)
re_split(s) ==
  LET d == FirstDelim(s, 1)
  IN  IF d = 0 THEN <<s>>
      ELSE <<SubSeq(s, 1, d - 1)>> \o re_split(SubSeq(s, d + 1, Len(s)))

RECURSIVE lstrip(_)
lstrip(s) ==
  IF s # <<>> /\ s[1] \in Whitespace THEN lstrip(Tail(s)) ELSE s

RECURSIVE rstrip(_)
rstrip(s) ==
  IF s # <<>> /\ s[Len(s)] \in Whitespace THEN rstrip(SubSeq(s, 1, Len(s) - 1)) ELSE s

\* str.strip(): only one side trimmed (leading whitespace survives)
strip_RightOnly(s) == rstrip(s)

\* str.strip()
strip(s) == rstrip(lstrip(s))

\* [a.strip() for a in pieces if a.strip()]
RECURSIVE StripKeep(_)
StripKeep(pieces) ==
  IF pieces = <<>> THEN <<>>
  ELSE LET a == strip(Head(pieces))
       IN  (IF a # <<>> THEN <<a>> ELSE <<>>) \o StripKeep(Tail(pieces))

split_authors(author_string) ==
  IF author_string.kind # "str" THEN <<>>
  ELSE StripKeep(re_split(author_string.chars))

(* ----------------------------- source ---------------------------------- *)
\* data_terpetakan_final.csv: absent, or a header line followed by a
\* sequence of rows (possibly none).  Only the
\* columns read by the loader's row filter and by the network page are
\* kept; journal and mapping_level feed charts only.
AuthorCells ==
  { NaN,
    Str(<<"A">>),
    Str(<<"A", ",", " ", "A">>),
    Str(<<"B", ";", " ", "A">>),
    Str(<<"A", ",", "B", ",", "C">>) }
YearCells == {Str(<<"2", "0", "2", "0">>), Str(<<"n", "/", "a">>)}
SdgCells == {Str(<<"SDG 1">>), Str(<<"SDG 2">>), NaN}

CsvRows ==
  [original_author : AuthorCells, publication_year : YearCells, sdg_mapping : SdgCells]

ReloadRows ==
  [original_author : {NaN, Str(<<"A">>), Str(<<"B", ";", " ", "A">>)},
   publication_year : {Str(<<"2", "0", "2", "0">>)},
   sdg_mapping : {Str(<<"SDG 1">>), Str(<<"SDG 2">>)}]

Missing == [exists |-> FALSE, rows |-> <<>>]
Files(R, n) == {Missing} \cup {[exists |-> TRUE, rows |-> r] : r \in SeqsUpTo(R, n)}

(* ---------------------------- load_data --------------------------------- *)
Digits == {"0", "1", "2", "3", "4", "5", "6", "7", "8", "9"}

\* pd.to_numeric(..., errors='coerce') followed by dropna: does the cell
\* survive as a number?
IsNumeric(cell) ==
  /\ cell.kind = "str"
  /\ cell.chars # <<>>
  /\ \A i \in 1..Len(cell.chars) : cell.chars[i] \in Digits

NoneDF == [isNone |-> TRUE, rows |-> <<>>]
Table(rows) == [isNone |-> FALSE, rows |-> rows]

\* a row filter that also drops rows whose author cell is missing
KeepRow_DropMissingAuthor(row) ==
  IsNumeric(row.publication_year) /\ row.original_author.kind = "str"

\* the rows the loader keeps: df.dropna(subset=['publication_year']) after
\* the coercion; rows whose year is not numeric are dropped
KeepRow(row) == IsNumeric(row.publication_year)

RECURSIVE CleanRows(_)
CleanRows(rows) ==
  IF rows = <<>> THEN <<>>
  ELSE LET row == Head(rows)
           out == [original_author |-> row.original_author,
                   authors_list |-> split_authors(row.original_author),
                   sdg_mapping |-> row.sdg_mapping]
       IN  (IF KeepRow(row) THEN <<out>> ELSE <<>>) \o CleanRows(Tail(rows))

\* body of load_data: the value returned and whether st.error was called
load_data_body(f) ==
  IF f.exists
  THEN [value |-> Table(CleanRows(f.rows)), error |-> FALSE]
  ELSE [value |-> NoneDF, error |-> TRUE]

EmptyCache == [filled |-> FALSE, value |-> NoneDF, error |-> FALSE]

\* @st.cache_data on a function without arguments: one entry for the life
\* of the process; a hit returns the stored value and replays its st.error
load_data(f, c) ==
  IF c.filled
  THEN [value |-> c.value, error |-> c.error, cache |-> c]
  ELSE LET r == load_data_body(f)
       IN  [value |-> r.value, error |-> r.error,
            cache |-> [filled |-> TRUE, value |-> r.value, error |-> r.error]]

(* ------------------------------ graph ----------------------------------- *)
EmptyMap == [x \in {} |-> 0]
NoAttr == [color |-> "", size |-> 0]
EmptyGraph == [node |-> EmptyMap, edge |-> EmptyMap]       \* nx.Graph()

\* G.add_node(n, **attr): creates the node or updates the attributes given
add_node(g, n, attr) ==
  LET old == IF n \in DOMAIN g.node THEN g.node[n] ELSE NoAttr
      new == [color |-> IF attr.color = "" THEN old.color ELSE attr.color,
              size |-> IF attr.size = 0 THEN old.size ELSE attr.size]
  IN  [g EXCEPT !.node = (n :> new) @@ g.node]

\* G.add_edge(u, v) that counts repeats of the pair in a weight
add_edge_Accumulate(g, u, v) ==
  LET g2 == add_node(add_node(g, u, NoAttr), v, NoAttr)
      e == {u, v}
  IN  IF e \in DOMAIN g2.edge
      THEN [g2 EXCEPT !.edge = (e :> (g2.edge[e] + 1)) @@ g2.edge]
      ELSE [g2 EXCEPT !.edge = (e :> 1) @@ g2.edge]

\* G.add_edge(u, v) on an nx.Graph: both endpoints become nodes; the pair is
\* stored once and a repeat leaves it as it is.  No weight attribute is
\* given, so the edge is drawn with the renderer's weight 1.
add_edge(g, u, v) ==
  LET g2 == add_node(add_node(g, u, NoAttr), v, NoAttr)
      e == {u, v}
  IN  IF e \in DOMAIN g2.edge THEN g2
      ELSE [g2 EXCEPT !.edge = (e :> 1) @@ g2.edge]

(* ---------------------------- "By SDG" ---------------------------------- *)
\* sorted(df['sdg_mapping'].dropna().unique().tolist()), as a set
sdg_list(t) ==
  {t.rows[i].sdg_mapping.chars : i \in {k \in 1..Len(t.rows) : t.rows[k].sdg_mapping.kind = "str"}}

\* the row filter without the SDG condition
df_sdg_AnySDG(t, selected) ==
  LET Keep(row) == Len(row.authors_list) > 1
  IN  SelectSeq(t.rows, Keep)

\* df[(df['sdg_mapping'] == selected_sdg) & (df['authors_list'].str.len() > 1)]
df_sdg(t, selected) ==
  LET Keep(row) == /\ row.sdg_mapping.kind = "str"
                   /\ row.sdg_mapping.chars = selected
                   /\ Len(row.authors_list) > 1
  IN  SelectSeq(t.rows, Keep)

\* inner loops that join only neighbouring positions i, i+1
RECURSIVE PairLoop_Adjacent(_, _, _, _)
PairLoop_Adjacent(g, al, i, j) ==
  IF i >= Len(al) THEN g
  ELSE PairLoop_Adjacent(add_edge(g, al[i], al[i + 1]), al, i + 1, i + 2)

\* for i in range(len(al)): for j in range(i + 1, len(al)): G.add_edge(al[i], al[j])
RECURSIVE PairLoop(_, _, _, _)
PairLoop(g, al, i, j) ==
  IF i > Len(al) THEN g
  ELSE IF j > Len(al) THEN PairLoop(g, al, i + 1, i + 2)
  ELSE PairLoop(add_edge(g, al[i], al[j]), al, i, j + 1)

\* for authors_list in df_sdg['authors_list']: ...
RECURSIVE BuildSdgGraph(_, _)
BuildSdgGraph(g, rows) ==
  IF rows = <<>> THEN g
  ELSE BuildSdgGraph(PairLoop(g, Head(rows).authors_list, 1, 2), Tail(rows))

\* net.from_nx(G); for node in net.nodes: node['size'] = 15
SdgNet(g) ==
  [node |-> [n \in DOMAIN g.node |-> [g.node[n] EXCEPT !.size = 15]], edge |-> g.edge]

(* -------------------------- "By Researcher" ----------------------------- *)
Names(al) == {al[i] : i \in 1..Len(al)}

\* sorted(list(set(author for sublist in df['authors_list'] for author in sublist)))
all_authors(t) == UNION {Names(t.rows[i].authors_list) : i \in 1..Len(t.rows)}

\* df[df['authors_list'].apply(lambda a: selected_author in a and len(a) > 1)]
df_author(t, selected) ==
  LET Keep(row) == /\ selected \in Names(row.authors_list)
                   /\ Len(row.authors_list) > 1
  IN  SelectSeq(t.rows, Keep)

\* the co-author loop without the test co_author != selected_author
RECURSIVE CoAuthorLoop_NoGuard(_, _, _)
CoAuthorLoop_NoGuard(g, al, selected) ==
  IF al = <<>> THEN g
  ELSE CoAuthorLoop_NoGuard(
         add_edge(add_node(g, Head(al), [color |-> "", size |-> 15]), selected, Head(al)),
         Tail(al), selected)

\* for co_author in authors_list: if co_author != selected_author: ...
RECURSIVE CoAuthorLoop(_, _, _)
CoAuthorLoop(g, al, selected) ==
  IF al = <<>> THEN g
  ELSE LET co_author == Head(al)
           g2 == IF co_author # selected
                 THEN add_edge(add_node(g, co_author, [color |-> "", size |-> 15]),
                               selected, co_author)
                 ELSE g
       IN  CoAuthorLoop(g2, Tail(al), selected)

RECURSIVE BuildAuthorRows(_, _, _)
BuildAuthorRows(g, rows, selected) ==
  IF rows = <<>> THEN g
  ELSE BuildAuthorRows(CoAuthorLoop(g, Head(rows).authors_list, selected), Tail(rows), selected)

\* G = nx.Graph(); G.add_node(selected_author, color='red', size=25); loops
BuildAuthorGraph(rows, selected) ==
  BuildAuthorRows(add_node(EmptyGraph, selected, [color |-> "red", size |-> 25]), rows, selected)

(* ---------------------------- aggregates -------------------------------- *)
\* df['sdg_mapping'].value_counts(): rows per non-null SDG label
sdg_counts(t) ==
  [s \in sdg_list(t) |->
     Cardinality({i \in 1..Len(t.rows) :
                    t.rows[i].sdg_mapping.kind = "str" /\ t.rows[i].sdg_mapping.chars = s})]

(* ------------------------------ state ----------------------------------- *)
VARIABLES
  file,                \* the source CSV on disk
  cache,               \* the st.cache_data entry of load_data
  df,                  \* df = load_data() of the latest script run
  page,                \* sidebar page of the latest run ("" before any run)
  visualization_type,  \* 'By SDG' | 'By Researcher' ("" when not on that page)
  selected_sdg,        \* chosen SDG label (<<>> for None)
  selected_author,     \* chosen author name (<<>> for None)
  G,                   \* the nx.Graph built by the latest run
  net,                 \* the graph handed to Network.from_nx / save_graph
  messages,            \* st.error / st.warning shown by the latest run
  stages,              \* steps the latest run executed
  charts,              \* SDG distribution drawn by the latest run
  author_string,       \* argument of a direct split_authors call
  authors,             \* its result
  called               \* whether that call has been made

vars == <<file, cache, df, page, visualization_type, selected_sdg, selected_author,
          G, net, messages, stages, charts, author_string, authors, called>>

appVars == <<file, cache, df, page, visualization_type, selected_sdg, selected_author,
             G, net, messages, stages, charts>>
splitVars == <<author_string, authors, called>>

NoRun ==
  /\ cache = EmptyCache
  /\ df = NoneDF
  /\ page = ""
  /\ visualization_type = ""
  /\ selected_sdg = <<>>
  /\ selected_author = <<>>
  /\ G = EmptyGraph
  /\ net = EmptyGraph
  /\ messages = {}
  /\ stages = {}
  /\ charts = EmptyMap

NoSplit ==
  /\ author_string = NaN
  /\ authors = <<>>
  /\ called = FALSE

(* ------------------------- split_authors calls -------------------------- *)
InitSplit ==
  /\ author_string \in SplitInputs
  /\ authors = <<>>
  /\ called = FALSE
  /\ file = Missing
  /\ NoRun

CallSplit ==
  /\ ~called
  /\ authors' = split_authors(author_string)
  /\ called' = TRUE
  /\ UNCHANGED author_string
  /\ UNCHANGED appVars

SpecSplit == InitSplit /\ [][CallSplit]_vars

(* ----------------------------- script runs ------------------------------ *)
\* lines 54-87: df = load_data(); the page content is guarded by df is not None
Loaded(r) ==
  /\ cache' = r.cache
  /\ df' = r.value
  /\ UNCHANGED <<file, splitVars>>

Nothing(msgs, done) ==
  /\ G' = EmptyGraph
  /\ net' = EmptyGraph
  /\ messages' = msgs
  /\ stages' = done

\* page == "General Analysis"
RunGeneral ==
  LET r == load_data(file, cache)
      err == IF r.error THEN {"error"} ELSE {}
  IN  /\ Loaded(r)
      /\ page' = "General Analysis"
      /\ visualization_type' = ""
      /\ selected_sdg' = <<>>
      /\ selected_author' = <<>>
      /\ IF r.value.isNone
         THEN /\ Nothing(err, {})
              /\ charts' = EmptyMap
         ELSE /\ Nothing(err, {"aggregate"})
              /\ charts' = sdg_counts(r.value)

\* page == "Researcher Collaboration Network", visualization_type == 'By SDG'
RunBySDG ==
  LET r == load_data(file, cache)
      err == IF r.error THEN {"error"} ELSE {}
  IN  /\ Loaded(r)
      /\ page' = "Researcher Collaboration Network"
      /\ charts' = EmptyMap
      /\ selected_author' = <<>>
      /\ IF r.value.isNone
         THEN /\ visualization_type' = ""
              /\ selected_sdg' = <<>>
              /\ Nothing(err, {})
         ELSE /\ visualization_type' = "By SDG"
              /\ IF sdg_list(r.value) = {}
                 THEN /\ selected_sdg' = <<>>               \* selectbox returns None
                      /\ Nothing(err, {"sdg_list"})
                 ELSE \E s \in sdg_list(r.value) :
                        LET rows == df_sdg(r.value, s)
                            g == BuildSdgGraph(EmptyGraph, rows)
                        IN  /\ selected_sdg' = s
                            /\ IF rows = <<>>
                               THEN Nothing(err \cup {"warning"}, {"sdg_list"})
                               ELSE /\ G' = g
                                    /\ net' = SdgNet(g)
                                    /\ messages' = err
                                    /\ stages' = {"sdg_list", "graph", "render"}

\* page == "Researcher Collaboration Network", visualization_type == 'By Researcher'
RunByResearcher ==
  LET r == load_data(file, cache)
      err == IF r.error THEN {"error"} ELSE {}
  IN  /\ Loaded(r)
      /\ page' = "Researcher Collaboration Network"
      /\ charts' = EmptyMap
      /\ selected_sdg' = <<>>
      /\ IF r.value.isNone
         THEN /\ visualization_type' = ""
              /\ selected_author' = <<>>
              /\ Nothing(err, {})
         ELSE /\ visualization_type' = "By Researcher"
              /\ IF all_authors(r.value) = {}
                 THEN /\ selected_author' = <<>>            \* selectbox returns None
                      /\ Nothing(err, {"all_authors"})
                 ELSE \E a \in all_authors(r.value) :
                        LET rows == df_author(r.value, a)
                            g == BuildAuthorGraph(rows, a)
                        IN  /\ selected_author' = a
                            /\ IF rows = <<>>
                               THEN Nothing(err \cup {"warning"}, {"all_authors"})
                               ELSE /\ G' = g
                                    /\ net' = g
                                    /\ messages' = err
                                    /\ stages' = {"all_authors", "graph", "render"}

ScriptRun == RunGeneral \/ RunBySDG \/ RunByResearcher

\* the CSV is replaced, removed or created between two script runs
SourceChange ==
  /\ \E f \in Files(ReloadRows, MaxReloadRows) :
       /\ f # file
       /\ file' = f
  /\ UNCHANGED <<cache, df, page, visualization_type, selected_sdg, selected_author,
                 G, net, messages, stages, charts, splitVars>>

(* --------------------------- specifications ----------------------------- *)
\* runs against a source that stays as it is
Init ==
  /\ file \in Files(CsvRows, MaxRows)
  /\ NoRun
  /\ NoSplit

Next == RunGeneral \/ RunBySDG \/ RunByResearcher

Spec == Init /\ [][Next]_vars

\* runs interleaved with changes of the source
InitReload ==
  /\ file \in Files(ReloadRows, MaxReloadRows)
  /\ NoRun
  /\ NoSplit

NextReload == RunGeneral \/ RunBySDG \/ RunByResearcher \/ SourceChange

SpecReload == InitReload /\ [][NextReload]_vars

(* ============================ properties ================================ *)
Min(S) == CHOOSE x \in S : \A y \in S : x <= y
Max(S) == CHOOSE x \in S : \A y \in S : x >= y

\* positions that bound a piece of s: both ends and every delimiter
Cuts(s) == {0, Len(s) + 1} \cup {i \in 1..Len(s) : s[i] \in Delims}
Pieces(s) ==
  {seg \in Cuts(s) \X Cuts(s) :
     seg[1] < seg[2] /\ ~ \E c \in Cuts(s) : seg[1] < c /\ c < seg[2]}
\* positions of a piece that hold something other than whitespace
Ink(s, seg) == {i \in (seg[1] + 1)..(seg[2] - 1) : s[i] \notin Whitespace}
NonBlank(s) == {seg \in Pieces(s) : Ink(s, seg) # {}}

Name(c) == <<c>>

\* C1: split_authors returns the empty sequence for every input that is not
\* a string; for a string it returns, in input order, one entry per piece
\* between delimiters that holds a non-whitespace character, the entry being
\* the piece from its first to its last non-whitespace character; and
\* "A, B ; C" gives ["A", "B", "C"].
C1_SplitAuthors ==
  called =>
    /\ author_string.kind # "str" => authors = <<>>
    /\ author_string.kind = "str" =>
         LET s == author_string.chars
         IN  /\ Len(authors) = Cardinality(NonBlank(s))
             /\ \A seg \in NonBlank(s) :
                  authors[1 + Cardinality({t \in NonBlank(s) : t[1] < seg[1]})]
                    = SubSeq(s, Min(Ink(s, seg)), Max(Ink(s, seg)))
    /\ author_string = Str(ExampleString) => authors = <<Name("A"), Name("B"), Name("C")>>

C1_Witness ==
  /\ called
  /\ author_string = Str(ExampleString)
  /\ authors = <<Name("A"), Name("B"), Name("C")>>

SdgGraphBuilt == visualization_type = "By SDG" /\ "graph" \in stages
AuthorGraphBuilt == visualization_type = "By Researcher" /\ "graph" \in stages

\* rows of the loaded table labelled with the selected SDG and holding at
\* least two parsed authors
SdgRecords ==
  {i \in 1..Len(df.rows) :
     /\ df.rows[i].sdg_mapping = Str(selected_sdg)
     /\ Len(df.rows[i].authors_list) >= 2}

\* C2: after a "By SDG" build, every two distinct author names of a record
\* used for the graph are joined by an edge, whatever the order of the
\* authors in the record and of the records in the table.
C2_AllPairsJoined ==
  SdgGraphBuilt =>
    \A i \in SdgRecords :
      \A a, b \in Names(df.rows[i].authors_list) :
        a # b => {a, b} \in DOMAIN G.edge

C2_Witness ==
  /\ SdgGraphBuilt
  /\ \E i \in SdgRecords : Cardinality(Names(df.rows[i].authors_list)) = 3
  /\ {Name("A"), Name("C")} \in DOMAIN G.edge

\* number of records used for the graph in which both ends of e occur
CoOccurrences(e) ==
  Cardinality({i \in SdgRecords : e \subseteq Names(df.rows[i].authors_list)})

C4_NoSelfLoop ==
  \A e \in DOMAIN G.edge : Cardinality(e) = 2

\* C5: for a selected SDG the graph is the one built from the records
\* labelled with that SDG that hold at least two parsed authors: without
\* such a record nothing is built; otherwise the nodes are exactly the
\* authors of these records and the edges exactly the pairs of positions
\* i < j of these records.
C5_OnlySelectedSdg ==
  (visualization_type = "By SDG" /\ selected_sdg # <<>>) =>
    /\ SdgRecords = {} => (~ SdgGraphBuilt /\ G = EmptyGraph)
    /\ SdgRecords # {} =>
         /\ SdgGraphBuilt
         /\ DOMAIN G.node = UNION {Names(df.rows[i].authors_list) : i \in SdgRecords}
         /\ DOMAIN G.edge =
              UNION { { {df.rows[i].authors_list[p[1]], df.rows[i].authors_list[p[2]]} :
                          p \in {q \in (1..Len(df.rows[i].authors_list))
                                         \X (1..Len(df.rows[i].authors_list)) :
                                   q[1] < q[2]} }
                      : i \in SdgRecords }

C5_Witness ==
  /\ SdgGraphBuilt
  /\ all_authors(df) \ DOMAIN G.node # {}
  /\ \E i \in 1..Len(df.rows) :
       /\ df.rows[i].sdg_mapping.kind = "str"
       /\ df.rows[i].sdg_mapping # Str(selected_sdg)
       /\ Len(df.rows[i].authors_list) >= 2

\* rows of the source whose author cell is missing and whose year is numeric
AuthorlessSourceRows ==
  {i \in 1..Len(file.rows) :
     file.rows[i].original_author.kind # "str" /\ IsNumeric(file.rows[i].publication_year)}
AuthorlessRecords ==
  {i \in 1..Len(df.rows) : df.rows[i].original_author.kind # "str"}

C7_MissingSourceStopsRun ==
  [][(ScriptRun /\ ~ file.exists) =>
       ("error" \in messages' /\ df'.isNone /\ stages' = {})]_vars

\* C8: the renderer is invoked only on a graph with at least one edge
\* between two distinct authors; a graph without edges gives a warning
\* instead.
C8_RenderOnlyWithEdge ==
  "render" \in stages =>
    /\ \E e \in DOMAIN net.edge : Cardinality(e) = 2
    /\ "warning" \notin messages

\* records of the loaded table that hold the selected author together with
\* at least one more parsed entry
AuthorRecords ==
  {i \in 1..Len(df.rows) :
     /\ selected_author \in Names(df.rows[i].authors_list)
     /\ Len(df.rows[i].authors_list) > 1}
Neighbors == DOMAIN G.node \ {selected_author}

\* C9: in a "By Researcher" graph the selected author alone carries the
\* center marking (red, size 25); the other nodes are exactly the other
\* names of the records that hold the selected author and more than one
\* parsed author, each of size 15; every edge joins the selected author to
\* one of them.
C9_StarAroundSelected ==
  AuthorGraphBuilt =>
    /\ selected_author \in DOMAIN G.node
    /\ G.node[selected_author] = [color |-> "red", size |-> 25]
    /\ Neighbors = UNION {Names(df.rows[i].authors_list) : i \in AuthorRecords}
                     \ {selected_author}
    /\ \A n \in Neighbors : G.node[n] = [color |-> "", size |-> 15]
    /\ DOMAIN G.edge = {{selected_author, n} : n \in Neighbors}
    /\ net = G

C9_Witness ==
  /\ AuthorGraphBuilt
  /\ Cardinality(Neighbors) = 2
  /\ Cardinality(AuthorRecords) = 2

\* C10: the table a run gets from load_data is the one the current source
\* gives.
C10_ReturnsCurrentSource ==
  [][ScriptRun => df' = load_data_body(file).value]_vars
====
